---- MODULE Spec2Model ----
(***************************************************************************)
(* Model of the unified search gateway (src/index.js): the handler of      *)
(* POST /api/search/unified, the three source adapters, the ranker.        *)
(*                                                                         *)
(* Strings are sequences of one-character strings.  Scores are integers in *)
(* tenths (a JavaScript score of 28.8 is 288 here), so that the 0.9 and    *)
(* 0.8 multipliers of the adapters stay exact.  An optional JavaScript     *)
(* value is a sequence of length 0 (undefined) or 1 (the value).           *)
(***************************************************************************)
EXTENDS Integers, Sequences, FiniteSets, TLC

\* ------------------------------------------------------------------------
\* Bounds of the model
\* ------------------------------------------------------------------------

\* longest list of articles / documents one upstream answer carries
MaxArticles == 2

\* ------------------------------------------------------------------------
\* JavaScript values and string functions
\* ------------------------------------------------------------------------

None == << >>

Some(x) == << x >>

IsWhitespace(c) == c \in {" ", "\t"}

\* String.prototype.toLowerCase, on the alphabet of the model
LowerChar(c) == IF c = "A" THEN "a" ELSE c

toLowerCase(s) == [i \in DOMAIN s |-> LowerChar(s[i])]

RECURSIVE TrimStart(_)
TrimStart(s) ==
  IF s # << >> /\ IsWhitespace(Head(s)) THEN TrimStart(Tail(s)) ELSE s

RECURSIVE TrimEnd(_)
TrimEnd(s) ==
  IF s # << >> /\ IsWhitespace(s[Len(s)])
    THEN TrimEnd(SubSeq(s, 1, Len(s) - 1))
    ELSE s

\* String.prototype.trim
trim(s) == TrimEnd(TrimStart(s))

\* String.prototype.includes: t occurs in s as a substring
includes(s, t) ==
  \E i \in 0..(Len(s) - Len(t)) : SubSeq(s, i + 1, i + Len(t)) = t

\* s.split(' '): cut at every single space character, empty pieces kept
RECURSIVE SplitSpaceFrom(_, _)
SplitSpaceFrom(s, cur) ==
  IF s = << >> THEN << cur >>
  ELSE IF Head(s) = " " THEN << cur >> \o SplitSpaceFrom(Tail(s), << >>)
  ELSE SplitSpaceFrom(Tail(s), Append(cur, Head(s)))

splitSpace(s) == SplitSpaceFrom(s, << >>)

\* s.split(/\s+/): cut at every run of whitespace characters
RECURSIVE SplitWsFrom(_, _)
SplitWsFrom(s, cur) ==
  IF s = << >> THEN << cur >>
  ELSE IF IsWhitespace(Head(s))
    THEN << cur >> \o SplitWsFrom(TrimStart(s), << >>)
  ELSE SplitWsFrom(Tail(s), Append(cur, Head(s)))

splitWhitespace(s) == SplitWsFrom(s, << >>)

\* Array.prototype.join(' ')
RECURSIVE joinSpace(_)
joinSpace(segs) ==
  IF segs = << >> THEN << >>
  ELSE IF Len(segs) = 1 THEN Head(segs)
  ELSE Head(segs) \o << " " >> \o joinSpace(Tail(segs))

\* Array.prototype.slice(0, n) for an integer n (a negative n counts from
\* the end of the array)
slice0(s, n) ==
  IF n >= 0
    THEN SubSeq(s, 1, IF n < Len(s) THEN n ELSE Len(s))
    ELSE SubSeq(s, 1, IF Len(s) + n > 0 THEN Len(s) + n ELSE 0)

\* Math.floor in the place of Math.ceil
FloorShare(limit, pct) == (limit * pct) \div 10

\* Math.ceil(limit * (pct / 10)) for an integer limit
CeilShare(limit, pct) == 0 - ((0 - (limit * pct)) \div 10)

\* a sort that puts a result before the results of equal score
RECURSIVE InsertBeforeEqual(_, _)
InsertBeforeEqual(sorted, r) ==
  IF sorted = << >> THEN << r >>
  ELSE IF Head(sorted).score > r.score
    THEN << Head(sorted) >> \o InsertBeforeEqual(Tail(sorted), r)
  ELSE << r >> \o sorted

\* Array.prototype.sort((a, b) => b.score - a.score): stable, descending
RECURSIVE InsertByScore(_, _)
InsertByScore(sorted, r) ==
  IF sorted = << >> THEN << r >>
  ELSE IF Head(sorted).score >= r.score
    THEN << Head(sorted) >> \o InsertByScore(Tail(sorted), r)
  ELSE << r >> \o sorted

RECURSIVE sortByScoreDesc(_)
sortByScoreDesc(s) ==
  IF s = << >> THEN << >>
  ELSE InsertByScore(sortByScoreDesc(SubSeq(s, 1, Len(s) - 1)), s[Len(s)])

\* ------------------------------------------------------------------------
\* Upstream answers the adapters can receive
\* ------------------------------------------------------------------------

Sources == {"zendesk", "docs", "knowledge_base"}

\* titles and breadcrumbs of the upstream content
TitleXyz == << "x", "y", "z" >>

TitleAbcAbd == << "A", "b", "c", " ", "a", "b", "d" >>

CrumbAbc == << "a", "b", "c" >>

\* articles the help-center search API answers the plain query with:
\* {id, title, score, updated_at}; updated_at is kept as the age of the
\* article in whole days at the time of the request
ArticleCatalog ==
  << [id |-> 1, title |-> Some(TitleXyz), score |-> Some(36), updated_at |-> Some(30)],
     [id |-> 2, title |-> Some(TitleXyz), score |-> Some(34), updated_at |-> Some(30)],
     [id |-> 3, title |-> Some(TitleAbcAbd), score |-> None, updated_at |-> Some(7)],
     [id |-> 4, title |-> None, score |-> Some(36), updated_at |-> None] >>

\* articles it answers the keyword-biased query with
KeywordCatalog ==
  << [id |-> 5, title |-> Some(TitleXyz), score |-> Some(45), updated_at |-> Some(30)],
     [id |-> 6, title |-> Some(TitleXyz), score |-> Some(45), updated_at |-> Some(6)],
     [id |-> 7, title |-> Some(TitleAbcAbd), score |-> Some(45), updated_at |-> None],
     [id |-> 8, title |-> Some(TitleXyz), score |-> Some(0 - 50), updated_at |-> Some(30)] >>

\* documents of the documentation search index: {i, t, u, b}
DocumentCatalog ==
  << [i |-> 1, t |-> Some(TitleXyz), u |-> Some(<< "/", "x" >>), b |-> Some(<< CrumbAbc >>)],
     [i |-> 2, t |-> Some(TitleAbcAbd), u |-> Some(<< "/", "a" >>), b |-> None],
     [i |-> 3, t |-> None, u |-> Some(<< "/", "n" >>), b |-> Some(<< CrumbAbc >>)] >>

\* the contiguous runs of at most MaxArticles entries of a catalog
WindowsOf(catalog) ==
  { SubSeq(catalog, w[1], w[2]) :
      w \in { v \in (1..Len(catalog)) \X (0..Len(catalog)) :
                v[2] >= v[1] - 1 /\ v[2] - v[1] + 1 <= MaxArticles } }

\* what axios.get of the help-center search can end in: an error that axios
\* throws (timeout, non-2xx status), a body without a results array, or a
\* body with one
HelpCenterAnswers(catalog) ==
  { [kind |-> k, results |-> << >>] :
      k \in {"timeout", "http_error", "no_results_array"} }
  \cup { [kind |-> "ok", results |-> w] : w \in WindowsOf(catalog) }

\* what axios.get of the documentation index can end in
DocsIndexAnswers ==
  { [kind |-> k, results |-> << >>] :
      k \in {"timeout", "not_an_array", "no_documents"} }
  \cup { [kind |-> "ok", results |-> w] : w \in WindowsOf(DocumentCatalog) }

UpstreamAnswers(src) ==
  CASE src = "zendesk"        -> HelpCenterAnswers(ArticleCatalog)
    [] src = "docs"           -> DocsIndexAnswers
    [] src = "knowledge_base" -> HelpCenterAnswers(KeywordCatalog)

\* ------------------------------------------------------------------------
\* The source adapters
\* ------------------------------------------------------------------------

\* article.score || 0, in tenths
ScoreOrZero(article) ==
  IF article.score = None THEN 0 ELSE article.score[1] * 10

\* searchZendesk: the body of the try block maps every article; every
\* throw inside it (the request, a body without results) is caught and
\* turned into the empty list
searchZendesk(answer) ==
  IF answer.kind = "ok"
    THEN [k \in DOMAIN answer.results |->
            [id           |-> << "zendesk", answer.results[k].id >>,
             title        |-> answer.results[k].title,
             score        |-> ScoreOrZero(answer.results[k]),
             source       |-> "zendesk",
             last_updated |-> answer.results[k].updated_at]]
    ELSE << >>

\* searchKnowledgeBase: as searchZendesk, with the score times 0.8
searchKnowledgeBase(answer) ==
  IF answer.kind = "ok"
    THEN [k \in DOMAIN answer.results |->
            [id           |-> << "kb", answer.results[k].id >>,
             title        |-> answer.results[k].title,
             score        |-> (ScoreOrZero(answer.results[k]) * 8) \div 10,
             source       |-> "knowledge_base",
             last_updated |-> answer.results[k].updated_at]]
    ELSE << >>

\* the words of the query the documentation adapter looks for
DocsQueryLower(query) == trim(toLowerCase(query))

DocsQueryWords(query) ==
  SelectSeq(splitWhitespace(DocsQueryLower(query)), LAMBDA w : Len(w) > 2)

BreadcrumbText(doc) ==
  IF doc.b = None THEN << >> ELSE toLowerCase(joinSpace(doc.b[1]))

\* the lexical score of one document, before the 0.9 multiplier
DocsLexicalScore(doc, query) ==
  LET titleLower == toLowerCase(doc.t[1])
      crumbs     == BreadcrumbText(doc)
      words      == DocsQueryWords(query)
  IN  (IF includes(titleLower, DocsQueryLower(query)) THEN 100 ELSE 0)
    + (IF includes(crumbs, DocsQueryLower(query)) THEN 50 ELSE 0)
    + 20 * Len(SelectSeq(words, LAMBDA w : includes(titleLower, w)))
    + 10 * Len(SelectSeq(words, LAMBDA w : includes(crumbs, w)))

\* !doc.t || !doc.u : an absent or empty title or URL
DocSkipped(doc) ==
  \/ doc.t = None \/ doc.t[1] = << >>
  \/ doc.u = None \/ doc.u[1] = << >>

\* the results.push of the forEach, in document order
RECURSIVE DocsCollect(_, _)
DocsCollect(docs, query) ==
  IF docs = << >> THEN << >>
  ELSE (IF ~DocSkipped(Head(docs)) /\ DocsLexicalScore(Head(docs), query) > 0
          THEN << [id           |-> << "docs", Head(docs).i >>,
                   title        |-> Head(docs).t,
                   score        |-> DocsLexicalScore(Head(docs), query) * 9,
                   source       |-> "docs",
                   last_updated |-> Some(0)] >>
          ELSE << >>)
       \o DocsCollect(Tail(docs), query)

\* searchDocumentation: an unusable index gives the empty list; otherwise
\* the scored documents, sorted by score and cut to the adapter's limit
searchDocumentation(answer, query, limit) ==
  IF answer.kind = "ok"
    THEN slice0(sortByScoreDesc(DocsCollect(answer.results, query)), limit)
    ELSE << >>

\* the list an adapter call resolves to, given what its request ended in
AdapterValue(src, answer, query, limit) ==
  CASE src = "zendesk"        -> searchZendesk(answer)
    [] src = "docs"           -> searchDocumentation(answer, query, limit)
    [] src = "knowledge_base" -> searchKnowledgeBase(answer)

\* ------------------------------------------------------------------------
\* The ranker
\* ------------------------------------------------------------------------

\* the priorities of knowledge_base and docs exchanged
sourcePrioritySwapped(source) ==
  CASE source = "zendesk"        -> 100
    [] source = "knowledge_base" -> 60
    [] source = "docs"           -> 80
    [] OTHER                     -> 0

\* sourcePriority[result.source] || 0, in tenths
sourcePriority(source) ==
  CASE source = "zendesk"        -> 100
    [] source = "knowledge_base" -> 80
    [] source = "docs"           -> 60
    [] OTHER                     -> 0

\* query.toLowerCase().split(' ').filter(term => term.length > 2)
queryTerms(query) ==
  SelectSeq(splitSpace(toLowerCase(query)), LAMBDA term : Len(term) > 2)

\* the recency boost of a result, in tenths
RecencyBoost(result) ==
  IF result.last_updated = None THEN 0
  ELSE (IF result.last_updated[1] < 30 THEN 50 ELSE 0)
     + (IF result.last_updated[1] < 7 THEN 100 ELSE 0)

\* the score the map callback of rankResults gives a result, in tenths
RankedScore(result, query) ==
  LET titleLower == toLowerCase(result.title[1])
  IN  result.score
    + 200 * Len(SelectSeq(queryTerms(query),
                          LAMBDA term : includes(titleLower, term)))
    + (IF includes(titleLower, toLowerCase(query)) THEN 300 ELSE 0)
    + sourcePriority(result.source)
    + RecencyBoost(result)

\* result.title.toLowerCase() throws a TypeError on a result without title
RankThrows(results) ==
  \E k \in DOMAIN results : results[k].title = None

\* rankResults, for a list it does not throw on
rankResults(results, query) ==
  sortByScoreDesc([k \in DOMAIN results |->
                     [results[k] EXCEPT !.score = RankedScore(results[k], query)]])

\* ------------------------------------------------------------------------
\* Request bodies
\* ------------------------------------------------------------------------

QTab == << "a", "b", "c", "\t", "a", "b", "d" >>

QUpperPadded == << "A", "b", "d", " " >>

QRepeated ==
  << "a", "b", "c", " ", "a", "b", "c", " ", "a", "b", "c", " ", "a", "b", "c" >>

QOneChar == << "x" >>

QPaddedOneChar == << " ", "x", " " >>

\* the query field: absent, a number (5), or a string
QueryValues ==
  { [t |-> "undefined", s |-> << >>], [t |-> "number", s |-> << >>] }
  \cup { [t |-> "string", s |-> q] :
           q \in { << >>, QOneChar, QPaddedOneChar,
                   QTab, QUpperPadded, QRepeated } }

\* the limit field: absent or an integer
LimitValues == { None, Some(0 - 1), Some(2), Some(5) }

\* the sources field: absent, null, or an array of tags
SourcesValues ==
  { [t |-> "undefined", a |-> << >>], [t |-> "null", a |-> << >>] }
  \cup { [t |-> "array", a |-> a] :
           a \in { << >>, << "zendesk" >>, << "faq", "docs" >>,
                   << "knowledge_base", "zendesk" >> } }

Bodies == [query : QueryValues, limit : LimitValues, sources : SourcesValues]

\* limit = 10 of the destructuring
DefaultLimit == 10

\* sources = ['zendesk', 'docs', 'knowledge_base'] of the destructuring
DefaultSources == << "zendesk", "docs", "knowledge_base" >>

LimitOf(b) == IF b.limit = None THEN DefaultLimit ELSE b.limit[1]

\* a default applies to an absent field only, never to null
SourcesOf(b) ==
  IF b.sources.t = "undefined"
    THEN [t |-> "array", a |-> DefaultSources]
    ELSE b.sources

\* sources.length in the first console.log throws a TypeError on null
LogThrows(b) == SourcesOf(b).t = "null"

\* !query || typeof query !== 'string' || query.trim().length < 2
QueryInvalid(q) ==
  \/ q.t = "undefined"
  \/ q.t = "string" /\ q.s = << >>
  \/ q.t # "string"
  \/ Len(trim(q.s)) < 2

\* query || ''
QueryEcho(q) ==
  IF q.t = "undefined" \/ (q.t = "string" /\ q.s = << >>)
    THEN [t |-> "string", s |-> << >>]
    ELSE q

\* sources.includes(tag)
SourcesInclude(b, tag) ==
  \E k \in DOMAIN SourcesOf(b).a : SourcesOf(b).a[k] = tag

\* the docs block without its enabledSources.push
EnabledSourcesWithoutDocs(b) ==
  SelectSeq(<< "zendesk", "knowledge_base" >>,
            LAMBDA tag : SourcesInclude(b, tag))

\* the three if-blocks of the dispatch, in their order
EnabledSourcesOf(b) ==
  SelectSeq(<< "zendesk", "docs", "knowledge_base" >>,
            LAMBDA tag : SourcesInclude(b, tag))

\* Math.ceil(limit * 0.4) for zendesk, Math.ceil(limit * 0.3) for the others
AdapterLimit(src, limit) ==
  IF src = "zendesk" THEN CeilShare(limit, 4) ELSE CeilShare(limit, 3)

\* ------------------------------------------------------------------------
\* The text normalizer
\* ------------------------------------------------------------------------

\* 'No preview available'
NoPreview ==
  << "N", "o", " ", "p", "r", "e", "v", "i", "e", "w", " ",
     "a", "v", "a", "i", "l", "a", "b", "l", "e" >>

\* '...'
Ellipsis == << ".", ".", "." >>

\* maxLength = 200 of the parameter list
DefaultMaxLength == 200

\* the position of the first '>' of s
FirstGt(s) ==
  CHOOSE j \in DOMAIN s :
    s[j] = ">" /\ \A i \in 1..(j - 1) : s[i] # ">"

\* .replace(/<[^>]*>/g, ' '): every '<' up to the next '>' becomes a space
RECURSIVE StripTags(_)
StripTags(s) ==
  IF s = << >> THEN << >>
  ELSE IF Head(s) = "<" /\ (\E j \in DOMAIN s : s[j] = ">")
    THEN << " " >> \o StripTags(SubSeq(s, FirstGt(s) + 1, Len(s)))
  ELSE << Head(s) >> \o StripTags(Tail(s))

\* .replace(/pat/g, rep) for a literal pattern
RECURSIVE ReplaceAll(_, _, _)
ReplaceAll(s, pat, rep) ==
  IF Len(s) < Len(pat) THEN s
  ELSE IF SubSeq(s, 1, Len(pat)) = pat
    THEN rep \o ReplaceAll(SubSeq(s, Len(pat) + 1, Len(s)), pat, rep)
  ELSE << Head(s) >> \o ReplaceAll(Tail(s), pat, rep)

EntityNbsp == << "&", "n", "b", "s", "p", ";" >>

EntityAmp == << "&", "a", "m", "p", ";" >>

EntityLt == << "&", "l", "t", ";" >>

EntityGt == << "&", "g", "t", ";" >>

EntityQuot == << "&", "q", "u", "o", "t", ";" >>

EntityApos == << "&", "#", "3", "9", ";" >>

\* the six entity replacements, in their order
DecodeEntities(s) ==
  ReplaceAll(
    ReplaceAll(
      ReplaceAll(
        ReplaceAll(
          ReplaceAll(
            ReplaceAll(s, EntityNbsp, << " " >>),
            EntityAmp, << "&" >>),
          EntityLt, << "<" >>),
        EntityGt, << ">" >>),
      EntityQuot, << "\"" >>),
    EntityApos, << "'" >>)

\* .replace(/\s+/g, ' ')
RECURSIVE CollapseWhitespace(_)
CollapseWhitespace(s) ==
  IF s = << >> THEN << >>
  ELSE IF IsWhitespace(Head(s))
    THEN << " " >> \o CollapseWhitespace(TrimStart(s))
  ELSE << Head(s) >> \o CollapseWhitespace(Tail(s))

\* truncated.lastIndexOf(' '), counted from 0, -1 when there is none
lastIndexOfSpace(s) ==
  IF \E i \in DOMAIN s : s[i] = " "
    THEN (CHOOSE i \in DOMAIN s :
            s[i] = " " /\ \A j \in (i + 1)..Len(s) : s[j] # " ") - 1
    ELSE 0 - 1

\* a cut that also takes the text of exactly maxLength characters
AtLeastMaxLength(cleanText, maxLength) == Len(cleanText) >= maxLength

\* cleanText.length > maxLength
TooLong(cleanText, maxLength) == Len(cleanText) > maxLength

\* the body of the if: cut at maxLength, or at the last space when it lies
\* beyond 70% of maxLength, and append the ellipsis
Truncate(cleanText, maxLength) ==
  LET truncated == SubSeq(cleanText, 1, maxLength)
      lastSpaceIndex == lastIndexOfSpace(truncated)
  IN  IF 10 * lastSpaceIndex > 7 * maxLength
        THEN SubSeq(truncated, 1, lastSpaceIndex) \o Ellipsis
        ELSE truncated \o Ellipsis

\* stripHtmlAndCreateSnippet; htmlText is None when it is not a string
stripHtmlAndCreateSnippet(htmlText, maxLength) ==
  IF htmlText = None \/ htmlText[1] = << >> THEN NoPreview
  ELSE LET cleanText ==
             trim(CollapseWhitespace(DecodeEntities(StripTags(htmlText[1]))))
           cut == IF TooLong(cleanText, maxLength)
                    THEN Truncate(cleanText, maxLength)
                    ELSE cleanText
       IN  IF cut = << >> THEN NoPreview ELSE cut

\* ------------------------------------------------------------------------
\* The handler of POST /api/search/unified
\* ------------------------------------------------------------------------

VARIABLES
  phase,           \* "idle", "awaiting" (at the await of allSettled), "done"
  body,            \* req.body of the request being handled
  promise,         \* per adapter: "none", "pending", "fulfilled", "rejected"
  answer,          \* per adapter: what its upstream request ended in
  value,           \* per adapter: the list its promise resolved to
  calls,           \* per adapter: the limits it was invoked with, in order
  searchPromises,  \* the adapters whose promises were pushed, in order
  enabledSources,  \* the tags pushed next to them
  settleOrder,     \* the adapters in the order their promises settled
  allResults,      \* the merged list
  rankedResults,   \* the list rankResults returned
  response         \* the response sent

\* one call of stripHtmlAndCreateSnippet
VARIABLES
  snippetInput,      \* its htmlText argument, None when not a string
  snippetMaxLength,  \* its maxLength argument
  snippetOutput      \* None before the call, then the string returned

snippetVars == << snippetInput, snippetMaxLength, snippetOutput >>

handlerVars == << phase, body, promise, answer, value, calls, searchPromises,
                  enabledSources, settleOrder, allResults, rankedResults,
                  response >>

vars == << phase, body, promise, answer, value, calls, searchPromises,
           enabledSources, settleOrder, allResults, rankedResults, response,
           snippetInput, snippetMaxLength, snippetOutput >>

NoAnswer == [kind |-> "none", results |-> << >>]

NoResponse == [status |-> 0]

\* no request received yet
HandlerIdle ==
  /\ phase = "idle"
  /\ body = [query |-> [t |-> "undefined", s |-> << >>], limit |-> None,
             sources |-> [t |-> "undefined", a |-> << >>]]
  /\ promise = [src \in Sources |-> "none"]
  /\ answer = [src \in Sources |-> NoAnswer]
  /\ value = [src \in Sources |-> << >>]
  /\ calls = [src \in Sources |-> << >>]
  /\ searchPromises = << >>
  /\ enabledSources = << >>
  /\ settleOrder = << >>
  /\ allResults = << >>
  /\ rankedResults = << >>
  /\ response = NoResponse

Init ==
  /\ HandlerIdle
  /\ snippetInput = None
  /\ snippetMaxLength = DefaultMaxLength
  /\ snippetOutput = None

\* the catch block of the handler
ServiceError ==
  [status |-> 500, success |-> FALSE, error |-> "Unified search service error"]

\* the request throws before its validation: the catch block answers
ReceiveThrows(b) ==
  /\ phase = "idle"
  /\ LogThrows(b)
  /\ body' = b
  /\ response' = ServiceError
  /\ phase' = "done"
  /\ UNCHANGED snippetVars
  /\ UNCHANGED << promise, answer, value, calls, searchPromises,
                  enabledSources, settleOrder, allResults, rankedResults >>

\* the validation rejects the query
ReceiveInvalid(b) ==
  /\ phase = "idle"
  /\ ~LogThrows(b)
  /\ QueryInvalid(b.query)
  /\ body' = b
  /\ response' = [status  |-> 400,
                  success |-> FALSE,
                  error   |-> "Query must be at least 2 characters long",
                  query   |-> QueryEcho(b.query)]
  /\ phase' = "done"
  /\ UNCHANGED snippetVars
  /\ UNCHANGED << promise, answer, value, calls, searchPromises,
                  enabledSources, settleOrder, allResults, rankedResults >>

\* the handler calls the adapters of the requested sources, each call
\* running up to its axios.get, and waits at Promise.allSettled
ReceiveDispatch(b) ==
  /\ phase = "idle"
  /\ ~LogThrows(b)
  /\ ~QueryInvalid(b.query)
  /\ body' = b
  /\ enabledSources' = EnabledSourcesOf(b)
  /\ searchPromises' = EnabledSourcesOf(b)
  /\ promise' = [src \in Sources |->
                   IF SourcesInclude(b, src) THEN "pending" ELSE "none"]
  /\ calls' = [src \in Sources |->
                 IF SourcesInclude(b, src)
                   THEN Append(calls[src], AdapterLimit(src, LimitOf(b)))
                   ELSE calls[src]]
  /\ phase' = "awaiting"
  /\ UNCHANGED snippetVars
  /\ UNCHANGED << answer, value, settleOrder, allResults, rankedResults,
                  response >>

\* the upstream request of one adapter ends and the adapter returns
AdapterSettles(src) ==
  /\ phase = "awaiting"
  /\ promise[src] = "pending"
  /\ \E ans \in UpstreamAnswers(src) :
       /\ answer' = [answer EXCEPT ![src] = ans]
       /\ value' = [value EXCEPT ![src] =
                      AdapterValue(src, ans, body.query.s,
                                   AdapterLimit(src, LimitOf(body)))]
  /\ promise' = [promise EXCEPT ![src] = "fulfilled"]
  /\ settleOrder' = Append(settleOrder, src)
  /\ UNCHANGED snippetVars
  /\ UNCHANGED << phase, body, calls, searchPromises, enabledSources,
                  allResults, rankedResults, response >>

\* a race: resolves as soon as one promise has settled
AnySettled(ps) == \E k \in DOMAIN ps : promise[ps[k]] # "pending"

\* Promise.allSettled resolves once no promise is pending
AllSettled(ps) == \A k \in DOMAIN ps : promise[ps[k]] # "pending"

\* the outcomes in the order the promises settled
SettledInCompletionOrder(ps) ==
  [k \in DOMAIN settleOrder |->
     [status |-> promise[settleOrder[k]], value |-> value[settleOrder[k]]]]

\* the array Promise.allSettled resolves to: one entry per promise, in the
\* order the promises were pushed
SettledResults(ps) ==
  [k \in DOMAIN ps |-> [status |-> promise[ps[k]], value |-> value[ps[k]]]]

\* a merge that stops at the first adapter that contributed nothing
RECURSIVE MergeUntilFailure(_)
MergeUntilFailure(searchResults) ==
  IF searchResults = << >> THEN << >>
  ELSE IF Head(searchResults).status = "fulfilled"
          /\ Len(Head(searchResults).value) > 0
    THEN Head(searchResults).value \o MergeUntilFailure(Tail(searchResults))
  ELSE << >>

\* the forEach over searchResults
RECURSIVE MergeFulfilled(_)
MergeFulfilled(searchResults) ==
  IF searchResults = << >> THEN << >>
  ELSE (IF Head(searchResults).status = "fulfilled"
           /\ Len(Head(searchResults).value) > 0
          THEN Head(searchResults).value
          ELSE << >>)
       \o MergeFulfilled(Tail(searchResults))

\* the continuation after the await: merge, rank, cut, answer
RespondSuccess ==
  /\ phase = "awaiting"
  /\ AllSettled(searchPromises)
  /\ LET merged == MergeFulfilled(SettledResults(searchPromises))
         ranked == rankResults(merged, body.query.s)
         final  == slice0(ranked, LimitOf(body))
     IN  /\ ~RankThrows(merged)
         /\ allResults' = merged
         /\ rankedResults' = ranked
         /\ response' = [status   |-> 200,
                         success  |-> TRUE,
                         results  |-> final,
                         total    |-> Len(merged),
                         returned |-> Len(final),
                         query    |-> trim(body.query.s),
                         sources  |-> enabledSources]
  /\ phase' = "done"
  /\ UNCHANGED snippetVars
  /\ UNCHANGED << body, promise, answer, value, calls, searchPromises,
                  enabledSources, settleOrder >>

\* the continuation after the await when rankResults throws
RespondError ==
  /\ phase = "awaiting"
  /\ AllSettled(searchPromises)
  /\ LET merged == MergeFulfilled(SettledResults(searchPromises))
     IN  /\ RankThrows(merged)
         /\ allResults' = merged
  /\ response' = ServiceError
  /\ phase' = "done"
  /\ UNCHANGED snippetVars
  /\ UNCHANGED << body, promise, answer, value, calls, searchPromises,
                  enabledSources, settleOrder, rankedResults >>

Next ==
  \/ \E b \in Bodies : ReceiveThrows(b)
  \/ \E b \in Bodies : ReceiveInvalid(b)
  \/ \E b \in Bodies : ReceiveDispatch(b)
  \/ \E src \in Sources : AdapterSettles(src)
  \/ RespondSuccess
  \/ RespondError

Spec == Init /\ [][Next]_vars

\* ------------------------------------------------------------------------
\* Calls of the text normalizer
\* ------------------------------------------------------------------------

\* the pieces the texts are made of: words, whitespace, entities, a tag,
\* and the characters of entities and tags on their own
Pieces ==
  { << "x", "y", "z" >>, << "a" >>, << " " >>, << "\t" >>,
    << "&" >>, EntityAmp, EntityLt, EntityNbsp,
    << "<", "b", ">" >>, << "<" >>, << ">" >> }

\* longest text, in pieces
MaxPieces == 3

\* the texts of at most n pieces
RECURSIVE TextsOf(_)
TextsOf(n) ==
  IF n = 0 THEN { << >> }
  ELSE TextsOf(n - 1) \cup { p \o t : p \in Pieces, t \in TextsOf(n - 1) }

\* article.body: a string, or not a string at all
SnippetInputs == { None } \cup { Some(t) : t \in TextsOf(MaxPieces) }

\* the maxLength of the call: a short one, and the 200 of the adapters
SnippetMaxLengths == { 4, DefaultMaxLength }

SnippetInit ==
  /\ HandlerIdle
  /\ snippetInput \in SnippetInputs
  /\ snippetMaxLength \in SnippetMaxLengths
  /\ snippetOutput = None

\* the call returns
CreateSnippet ==
  /\ snippetOutput = None
  /\ snippetOutput' =
       Some(stripHtmlAndCreateSnippet(snippetInput, snippetMaxLength))
  /\ UNCHANGED << snippetInput, snippetMaxLength >>
  /\ UNCHANGED handlerVars

SnippetNext == CreateSnippet

SnippetSpec == SnippetInit /\ [][SnippetNext]_vars

\* ------------------------------------------------------------------------
\* Properties
\* ------------------------------------------------------------------------

Answered200 == phase = "done" /\ response.status = 200

\* the adapters that were called for the request
Dispatched == { src \in Sources : calls[src] # << >> }

\* an adapter whose upstream request did not give a usable body
UpstreamFailed(src) == answer[src].kind \notin {"ok", "none"}

\* where the result with this id stands in a list
PositionOf(list, id) == CHOOSE k \in DOMAIN list : list[k].id = id

HasId(list, id) == \E k \in DOMAIN list : list[k].id = id

\* the number of results the adapters resolved to
Contributed ==
  Len(value["zendesk"]) + Len(value["docs"]) + Len(value["knowledge_base"])

\* C1: whatever subset of the dispatched adapters failed or returned
\* nothing, every result of the other adapters is in the merged list, a
\* success response ranks every one of them, and its total is the number of
\* results the successful adapters contributed.
C1_PartialFailure ==
  (phase = "done" /\ Dispatched # {}) =>
    /\ \A src \in Dispatched : \A k \in DOMAIN value[src] :
         \E j \in DOMAIN allResults : allResults[j] = value[src][k]
    /\ Len(allResults) = Contributed
    /\ response.status = 200 =>
         /\ \A src \in Dispatched : \A k \in DOMAIN value[src] :
              HasId(rankedResults, value[src][k].id)
         /\ Len(rankedResults) = Contributed
         /\ response.total = Contributed

\* zendesk failed upstream, docs returned nothing, knowledge_base succeeded
C1_Witness ==
  /\ Answered200
  /\ UpstreamFailed("zendesk")
  /\ promise["docs"] = "fulfilled" /\ value["docs"] = << >>
  /\ Len(value["knowledge_base"]) = 2
  /\ response.total = 2

\* C3: a response to a dispatched request is produced only when every
\* adapter called for it has settled; none is still pending.
C3_JoinAllSettle ==
  (response.status # 0 \/ allResults # << >> \/ rankedResults # << >>) =>
    \A src \in Sources :
      /\ promise[src] # "pending"
      /\ src \in Dispatched => promise[src] \in {"fulfilled", "rejected"}

\* three adapters were called, the first to settle failed, and the response
\* still carries the results of the two that settled after it
C3_Witness ==
  /\ Answered200
  /\ Len(settleOrder) = 3
  /\ UpstreamFailed(settleOrder[1])
  /\ value[settleOrder[2]] # << >>
  /\ value[settleOrder[3]] # << >>

\* what an adapter contributes to the merge
Contribution(src) ==
  IF promise[src] = "fulfilled" THEN value[src] ELSE << >>

\* C4: whatever the order in which the adapter calls complete, the merged
\* list is the concatenation of the fulfilled lists in the order zendesk,
\* docs, knowledge_base, and the response is the ranking of that list cut to
\* the limit, with its total and returned counts.
C4_OrderIndependent ==
  Answered200 =>
    LET concat == Contribution("zendesk") \o Contribution("docs")
                    \o Contribution("knowledge_base")
    IN  /\ allResults = concat
        /\ response.results =
             slice0(rankResults(concat, body.query.s), LimitOf(body))
        /\ response.total = Len(concat)
        /\ response.returned = Len(response.results)

\* the adapters completed in the reverse of the order they were called in,
\* each with results
C4_Witness ==
  /\ Answered200
  /\ settleOrder = << "knowledge_base", "docs", "zendesk" >>
  /\ \A src \in Sources : value[src] # << >>

\* C5: the ranked list is a permutation of the merged list with new scores,
\* its scores never increase from one entry to the next, and results of equal
\* score stand in the order they had in the merged list.
C5_RankedOrder ==
  Answered200 =>
    /\ Len(rankedResults) = Len(allResults)
    /\ \A k \in DOMAIN allResults :
         \E j \in DOMAIN rankedResults :
           [rankedResults[j] EXCEPT !.score = 0]
             = [allResults[k] EXCEPT !.score = 0]
    /\ \A i, j \in DOMAIN rankedResults :
         i < j =>
           /\ rankedResults[i].score >= rankedResults[j].score
           /\ rankedResults[i].score = rankedResults[j].score =>
                PositionOf(allResults, rankedResults[i].id)
                  < PositionOf(allResults, rankedResults[j].id)

\* a ranking that moved a result forward and kept a tie in its input order
C5_Witness ==
  /\ Answered200
  /\ \E i, j \in DOMAIN rankedResults :
       /\ i < j
       /\ rankedResults[i].score = rankedResults[j].score
  /\ \E i, j \in DOMAIN rankedResults :
       /\ i < j
       /\ PositionOf(allResults, rankedResults[i].id)
            > PositionOf(allResults, rankedResults[j].id)

\* a query that is missing, not a string, or shorter than 2 after trimming
BadQuery(q) ==
  \/ q.t = "undefined"
  \/ q.t # "string"
  \/ q.t = "string" /\ Len(trim(q.s)) < 2

\* C2: a request whose query is missing, not a string or shorter than 2
\* characters after trimming is answered 400 with the fixed error text and
\* the echoed query, whatever its other fields are, and no adapter is called.
C2_InvalidQueryRejected ==
  (phase = "done" /\ BadQuery(body.query)) =>
    /\ response.status = 400
    /\ response.success = FALSE
    /\ response.error = "Query must be at least 2 characters long"
    /\ response.query = QueryEcho(body.query)
    /\ \A src \in Sources : calls[src] = << >>

\* an upstream answer the adapter cannot use: a failed request, a body of
\* the wrong shape, or a help-center article without a title
UnusableAnswer(src) ==
  \/ UpstreamFailed(src)
  \/ /\ src # "docs"
     /\ \E k \in DOMAIN answer[src].results : answer[src].results[k].title = None

\* C6: an adapter whose upstream answer is unusable resolves to the empty
\* list, never rejects, and the request is answered 200, never 500.
C6_FailuresAbsorbed ==
  \A src \in Sources :
    (phase = "done" /\ UnusableAnswer(src)) =>
      /\ promise[src] = "fulfilled"
      /\ value[src] = << >>
      /\ response.status = 200

\* the whitespace-separated lower-case tokens of the query that are longer
\* than 2 characters
WhitespaceTokens(query) ==
  SelectSeq(splitWhitespace(toLowerCase(query)), LAMBDA t : Len(t) > 2)

\* the score of the formula, in tenths
FormulaScore(result, query) ==
  result.score
  + 200 * Len(SelectSeq(WhitespaceTokens(query),
                        LAMBDA t : includes(toLowerCase(result.title[1]), t)))
  + (IF includes(toLowerCase(result.title[1]), toLowerCase(query))
       THEN 300 ELSE 0)
  + (CASE result.source = "zendesk"        -> 100
       [] result.source = "knowledge_base" -> 80
       [] result.source = "docs"           -> 60
       [] OTHER                            -> 0)
  + (IF result.last_updated # None /\ result.last_updated[1] < 30
       THEN 50 ELSE 0)
  + (IF result.last_updated # None /\ result.last_updated[1] < 7
       THEN 100 ELSE 0)

\* C7: the final score of every ranked result is its carried-in score plus
\* 20 per whitespace-separated query token (longer than 2, lower-cased) that
\* occurs in the lower-cased title, plus 30 for the whole lower-cased query
\* in the title, plus the source constant, plus the recency boosts.
C7_ScoreFormula ==
  Answered200 =>
    \A j \in DOMAIN rankedResults :
      rankedResults[j].score =
        FormulaScore(allResults[PositionOf(allResults, rankedResults[j].id)],
                     body.query.s)

\* the score a ranked result was carried in with
BaseScore(r) == allResults[PositionOf(allResults, r.id)].score

\* neither a token of the query nor the whole query occurs in the title
NoTitleMatch(r, query) ==
  /\ \A k \in DOMAIN WhitespaceTokens(query) :
       ~includes(toLowerCase(r.title[1]), WhitespaceTokens(query)[k])
  /\ \A k \in DOMAIN queryTerms(query) :
       ~includes(toLowerCase(r.title[1]), queryTerms(query)[k])
  /\ ~includes(toLowerCase(r.title[1]), toLowerCase(query))

\* help-center before knowledge-base before docs
Outranks(a, b) ==
  \/ a = "zendesk" /\ b \in {"knowledge_base", "docs"}
  \/ a = "knowledge_base" /\ b = "docs"

\* C8 as stated: of two ranked results with the same carried-in score and no
\* title match, the one of the source of higher priority stands first.
C8_SourcePriorityAsStated ==
  Answered200 =>
    \A i, j \in DOMAIN rankedResults :
      ( /\ BaseScore(rankedResults[i]) = BaseScore(rankedResults[j])
        /\ NoTitleMatch(rankedResults[i], body.query.s)
        /\ NoTitleMatch(rankedResults[j], body.query.s)
        /\ Outranks(rankedResults[i].source, rankedResults[j].source) )
      => i < j

\* C8 amended: of two ranked results with the same carried-in score, no
\* title match and the same recency boost, the one of the source of higher
\* priority stands first.
C8_SourcePriority ==
  Answered200 =>
    \A i, j \in DOMAIN rankedResults :
      ( /\ BaseScore(rankedResults[i]) = BaseScore(rankedResults[j])
        /\ NoTitleMatch(rankedResults[i], body.query.s)
        /\ NoTitleMatch(rankedResults[j], body.query.s)
        /\ RecencyBoost(rankedResults[i]) = RecencyBoost(rankedResults[j])
        /\ Outranks(rankedResults[i].source, rankedResults[j].source) )
      => i < j

\* a help-center result ahead of a knowledge-base result, and a
\* knowledge-base result ahead of a docs result, each pair with the same
\* carried-in score, no title match and the same recency boost
C8_Witness ==
  /\ Answered200
  /\ \E i, j \in DOMAIN rankedResults :
       /\ rankedResults[i].source = "zendesk"
       /\ rankedResults[j].source = "knowledge_base"
       /\ BaseScore(rankedResults[i]) = BaseScore(rankedResults[j])
       /\ NoTitleMatch(rankedResults[i], body.query.s)
       /\ NoTitleMatch(rankedResults[j], body.query.s)
       /\ RecencyBoost(rankedResults[i]) = RecencyBoost(rankedResults[j])
  /\ \E i, j \in DOMAIN rankedResults :
       /\ rankedResults[i].source = "knowledge_base"
       /\ rankedResults[j].source = "docs"
       /\ BaseScore(rankedResults[i]) = BaseScore(rankedResults[j])
       /\ NoTitleMatch(rankedResults[i], body.query.s)
       /\ NoTitleMatch(rankedResults[j], body.query.s)
       /\ RecencyBoost(rankedResults[i]) = RecencyBoost(rankedResults[j])

\* the tags the request asks for: all three when sources is omitted
Requested(src) ==
  \/ body.sources.t = "undefined"
  \/ /\ body.sources.t = "array"
     /\ \E k \in DOMAIN body.sources.a : body.sources.a[k] = src

\* n is the share pct/10 of the limit, rounded up
IsCeilOfShare(n, limit, pct) ==
  /\ 10 * n >= pct * limit
  /\ 10 * (n - 1) < pct * limit

\* C9: once a valid request is received, every adapter whose tag is
\* requested has been called exactly once, with 40% of the limit rounded up
\* for zendesk and 30% rounded up for docs and knowledge_base, the others
\* have not been called, and an unrecognized tag raises no error.
C9_Dispatch ==
  (phase # "idle" /\ ~BadQuery(body.query)) =>
    /\ \A src \in Sources :
         IF Requested(src)
           THEN /\ Len(calls[src]) = 1
                /\ IsCeilOfShare(calls[src][1], LimitOf(body),
                                 IF src = "zendesk" THEN 4 ELSE 3)
           ELSE calls[src] = << >>
    /\ (body.sources.t = "array" /\ response.status = 500) =>
         RankThrows(allResults)

\* a finished request for an unrecognized tag and docs, with limit 2: docs
\* was called once with limit 1, the others never, and the answer is a 200
C9_Witness ==
  /\ phase = "done"
  /\ body.sources.a = << "faq", "docs" >>
  /\ body.limit = Some(2)
  /\ calls["docs"] = << 1 >>
  /\ calls["zendesk"] = << >>
  /\ calls["knowledge_base"] = << >>
  /\ response.status = 200
  /\ response.total = 1

\* the smaller of two integers
Min(a, b) == IF a < b THEN a ELSE b

\* C10: a success response carries the first limit entries of the ranked
\* list, returned is their number and equals min(total, limit), and total is
\* the length of the merged list.
C10_Truncation ==
  Answered200 =>
    /\ response.results =
         SubSeq(rankedResults, 1, Min(LimitOf(body), Len(rankedResults)))
    /\ response.returned = Len(response.results)
    /\ response.returned = Min(response.total, LimitOf(body))
    /\ response.returned <= LimitOf(body)
    /\ response.total = Len(allResults)

\* the tag stands in the sources field of the response
Listed(tag) == \E k \in DOMAIN response.sources : response.sources[k] = tag

\* C11: the sources field of a success response lists, once each, exactly
\* the recognized tags that were requested and dispatched, whatever their
\* adapters ended in; no other tag stands in it.
C11_SourcesListed ==
  Answered200 =>
    /\ \A src \in Sources :
         Listed(src) <=> (Requested(src) /\ src \in Dispatched)
    /\ \A src \in Sources : Requested(src) => Listed(src)
    /\ \A k \in DOMAIN response.sources : response.sources[k] \in Sources
    /\ \A i, j \in DOMAIN response.sources :
         response.sources[i] = response.sources[j] => i = j

\* docs and an unrecognized tag were requested, the documentation index
\* could not be fetched, and the response lists docs alone
C11_Witness ==
  /\ Answered200
  /\ body.sources.a = << "faq", "docs" >>
  /\ UpstreamFailed("docs")
  /\ response.total = 0
  /\ response.sources = << "docs" >>

\* C12: every score an adapter produces is non-negative, rankResults never
\* lowers a score, and so no result of a response has a negative score.
C12_ScoreNonNegative ==
  /\ \A src \in Sources : \A k \in DOMAIN value[src] :
       value[src][k].score >= 0
  /\ Answered200 =>
       /\ \A j \in DOMAIN rankedResults :
            rankedResults[j].score >= BaseScore(rankedResults[j])
       /\ \A j \in DOMAIN response.results : response.results[j].score >= 0

\* s holds no markup tag: no '<' with a '>' after it
NoTags(s) ==
  ~ \E i, j \in DOMAIN s : i < j /\ s[i] = "<" /\ s[j] = ">"

AllWhitespace(s) == \A i \in DOMAIN s : IsWhitespace(s[i])

\* out is s without its leading and trailing whitespace, nothing else changed
IsTrimOf(out, s) ==
  /\ out # << >> => ~IsWhitespace(out[1]) /\ ~IsWhitespace(out[Len(out)])
  /\ \E i \in 0..Len(s) : \E j \in i..Len(s) :
       /\ SubSeq(s, i + 1, j) = out
       /\ AllWhitespace(SubSeq(s, 1, i))
       /\ AllWhitespace(SubSeq(s, j + 1, Len(s)))

\* C13 as stated: a string without markup tags and no longer than maxLength
\* comes back with its leading and trailing whitespace removed and nothing
\* else changed.
C13_RoundTripAsStated ==
  ( /\ snippetOutput # None
    /\ snippetInput # None
    /\ NoTags(snippetInput[1])
    /\ Len(snippetInput[1]) <= snippetMaxLength )
  => IsTrimOf(snippetOutput[1], snippetInput[1])

\* one of the six entities stands in s
HasEntity(s) ==
  \E e \in { EntityNbsp, EntityAmp, EntityLt, EntityGt, EntityQuot, EntityApos } :
    includes(s, e)

\* every whitespace character between two other characters of s is a
\* single space with no whitespace next to it
SingleSpaced(s) ==
  \A i \in DOMAIN s :
    ( /\ IsWhitespace(s[i])
      /\ ~AllWhitespace(SubSeq(s, 1, i))
      /\ ~AllWhitespace(SubSeq(s, i, Len(s))) )
    => /\ s[i] = " "
       /\ ~IsWhitespace(s[i - 1])
       /\ ~IsWhitespace(s[i + 1])

\* C13 amended: a string without markup tags, without any of the six
\* entities, whose inner whitespace is single spaces only, that is not
\* empty or all whitespace and is no longer than maxLength, comes back with
\* its leading and trailing whitespace removed and nothing else changed.
C13_RoundTrip ==
  ( /\ snippetOutput # None
    /\ snippetInput # None
    /\ NoTags(snippetInput[1])
    /\ ~HasEntity(snippetInput[1])
    /\ SingleSpaced(snippetInput[1])
    /\ ~AllWhitespace(snippetInput[1])
    /\ Len(snippetInput[1]) <= snippetMaxLength )
  => IsTrimOf(snippetOutput[1], snippetInput[1])

\* a tab before a lone '&' and a lone '<' came back without the tab
C13_Witness ==
  /\ snippetOutput = Some(<< "&", "<" >>)
  /\ snippetInput = Some(<< "\t", "&", "<" >>)
  /\ snippetMaxLength = 4

====
